---- MODULE Spec2Model ----
(***************************************************************************)
(* Model of resharper's src/lib.rs: the three-layer compositor             *)
(* (build_composited_image, compose), the position calculator              *)
(* (calculate_position) and resize_image (sizes for every image, contents  *)
(* for images of a single colour).                                         *)
(*                                                                         *)
(* Numbers.  Rust's f32 is modelled exactly: a finite f32 is the pair      *)
(* <<m, e>> standing for m * 2^e with m odd and |m| < 2^24 (zero is        *)
(* <<0, 0>>); every operation rounds to nearest, ties to even.  Exponents  *)
(* stay far inside the normal range for the inputs enumerated here, so     *)
(* subnormals, infinities and NaN do not arise.  An i64 is the record      *)
(* [anchor, off] standing for anchor + off where the anchor is i64::MIN,   *)
(* 0 or i64::MAX, which keeps the 64-bit edges exact.                      *)
(***************************************************************************)
EXTENDS Integers, Sequences, FiniteSets, TLC

VARIABLES
    pc,          \* position inside build_composited_image
    product_buffer, \* the caller's product_buffer
    overlay_buffer, \* the caller's overlay_buffer
    options,     \* BuildCompositedImageOptions as received
    product,     \* product_image (rebound by the resize at lib.rs:104)
    overlay_img, \* overlay_image
    background,  \* the canvas `background`, NoImage before lib.rs:112
    offset,      \* the parsed OffsetMode, NoValue before lib.rs:114
    product_pos, \* (product_x, product_y) of compose, NoValue before
    painted,     \* number of imageops::overlay calls completed
    saved,       \* contents of ./result.png, NoImage if never written
    outcome,     \* "running", "ok" or "panic"
    err,         \* what a panic carries
    fn_pc,       \* "call" before, "ret" after the pure function under study
    fn_in,       \* input of the pure function under study
    fn_out       \* its result, NoValue before the call

vars == <<pc, product_buffer, overlay_buffer, options, product, overlay_img, background, offset, product_pos,
          painted, saved, outcome, err, fn_pc, fn_in, fn_out>>

NoValue == "none"
NoImage == [w |-> 0, h |-> 0, px |-> <<>>, present |-> FALSE]

(***************************************************************************)
(* f32 arithmetic                                                          *)
(***************************************************************************)
Abs(n) == IF n < 0 THEN -n ELSE n
Sgn(n) == IF n < 0 THEN -1 ELSE IF n = 0 THEN 0 ELSE 1
Min2(a, b) == IF a <= b THEN a ELSE b
Max2(a, b) == IF a >= b THEN a ELSE b

RECURSIVE BitLen(_)
BitLen(n) == IF n = 0 THEN 0 ELSE 1 + BitLen(n \div 2)

\* strip trailing zero bits: the canonical odd-mantissa form
RECURSIVE Canon(_, _)
Canon(m, e) ==
    IF m = 0 THEN <<0, 0>>
    ELSE IF m % 2 = 0 THEN Canon(m \div 2, e + 1)
    ELSE <<m, e>>

\* round the positive magnitude n * 2^e (plus, when sticky, a nonzero
\* amount below n's last bit) to 24 significant bits, ties to even
F32RoundMag(n, e, sticky) ==
    LET bl == BitLen(n)
        k  == bl - 24
    IN  IF k <= 0 THEN Canon(n, e)
        ELSE LET q    == n \div (2^k)
                 r    == n % (2^k)
                 half == 2^(k - 1)
                 up   == \/ r > half
                         \/ r = half /\ sticky
                         \/ r = half /\ ~sticky /\ q % 2 = 1
             IN  Canon(IF up THEN q + 1 ELSE q, e + k)

F32Round(n, e, sticky) ==
    IF n = 0 THEN <<0, 0>>
    ELSE LET r == F32RoundMag(Abs(n), e, sticky)
         IN  <<Sgn(n) * r[1], r[2]>>

\* `n as f32` for an integer n
F32FromInt(n) == F32Round(n, 0, FALSE)

F32Neg(a) == <<-a[1], a[2]>>

F32Mul(a, b) == F32Round(a[1] * b[1], a[2] + b[2], FALSE)

\* long division: extend the quotient q (remainder r, divisor d) bit by bit
\* until it has 26 bits; n counts the bits produced
RECURSIVE DivBits(_, _, _, _)
DivBits(q, r, d, n) ==
    IF q >= 2^25 THEN <<q, r, n>>
    ELSE IF 2 * r >= d THEN DivBits(2 * q + 1, 2 * r - d, d, n + 1)
    ELSE DivBits(2 * q, 2 * r, d, n + 1)

\* a / b for b # 0
F32Div(a, b) ==
    IF a[1] = 0 THEN <<0, 0>>
    ELSE LET na == Abs(a[1])
             nb == Abs(b[1])
             d  == DivBits(na \div nb, na % nb, nb, 0)
             r  == F32RoundMag(d[1], a[2] - b[2] - d[3], d[2] # 0)
         IN  <<Sgn(a[1]) * Sgn(b[1]) * r[1], r[2]>>

\* the 24-bit normalised form <<M, E>> of a nonzero f32, 2^23 <= |M| < 2^24
Normal(a) ==
    LET s == 24 - BitLen(Abs(a[1]))
    IN  <<a[1] * (2^s), a[2] - s>>

\* a + b with guard, round and sticky bits
F32Add(a, b) ==
    IF a[1] = 0 THEN b
    ELSE IF b[1] = 0 THEN a
    ELSE LET na    == Normal(a)
             nb    == Normal(b)
             big   == IF na[2] >= nb[2] THEN na ELSE nb
             small == IF na[2] >= nb[2] THEN nb ELSE na
             sh    == big[2] - small[2]
             mb    == Abs(big[1]) * 8
             ms0   == Abs(small[1]) * 8
             ms    == IF sh >= 27 THEN 1
                      ELSE LET t == ms0 \div (2^sh)
                               lost == ms0 % (2^sh) # 0
                           IN  IF lost /\ t % 2 = 0 THEN t + 1 ELSE t
             sum   == Sgn(big[1]) * mb + Sgn(small[1]) * ms
         IN  F32Round(sum, big[2] - 3, FALSE)

F32Sub(a, b) == F32Add(a, F32Neg(b))

\* truncation toward zero of a finite f32 to an integer
F32Trunc(a) ==
    IF a[2] >= 0 THEN a[1] * (2^a[2])
    ELSE IF -a[2] >= 24 THEN 0
    ELSE Sgn(a[1]) * (Abs(a[1]) \div (2^(-a[2])))

\* `x as u32`: truncate toward zero, negative values saturate to 0
F32AsU32(a) == Max2(0, F32Trunc(a))

(***************************************************************************)
(* i64 values near the edges of the type                                   *)
(***************************************************************************)
I64(n)    == [anchor |-> "ZERO", off |-> n]
I64Min(k) == [anchor |-> "MIN", off |-> k]     \* i64::MIN + k, k >= 0
I64Max(k) == [anchor |-> "MAX", off |-> -k]    \* i64::MAX - k, k >= 0

\* the difference x - k as a mathematical integer, in anchored form; it is
\* an i64 exactly when InI64 holds of it
I64ExactSub(x, k) == [anchor |-> x.anchor, off |-> x.off - k]
InI64(v) ==
    \/ v.anchor = "ZERO"
    \/ v.anchor = "MIN" /\ v.off >= 0
    \/ v.anchor = "MAX" /\ v.off <= 0

\* two's complement wrap-around of an anchored value into i64
I64Wrap(v) ==
    IF InI64(v) THEN v
    ELSE IF v.anchor = "MIN" THEN [anchor |-> "MAX", off |-> v.off + 1]
    ELSE [anchor |-> "MIN", off |-> v.off - 1]

\* Rust's `x - k` on i64: with overflow checks (debug profile) an overflow
\* panics, without them (release profile) it wraps
I64Sub(x, k, overflow_checks) ==
    LET d == I64ExactSub(x, k)
    IN  IF InI64(d) THEN [panic |-> FALSE, v |-> d]
        ELSE IF overflow_checks THEN [panic |-> TRUE, v |-> d]
        ELSE [panic |-> FALSE, v |-> I64Wrap(d)]

I64Sign(v) ==
    IF v.anchor = "MIN" THEN -1
    ELSE IF v.anchor = "MAX" THEN 1
    ELSE Sgn(v.off)

(***************************************************************************)
(* OffsetMode and ResizeMode (lib.rs:10-20)                                *)
(***************************************************************************)
Pixel(x, y)   == [type |-> "Pixel", px |-> x, py |-> y]
Percent(x, y) == [type |-> "Percent", fx |-> x, fy |-> y]
Center        == [type |-> "Center"]

Width(w)  == [type |-> "Width", target |-> w]
Height(h) == [type |-> "Height", target |-> h]
Scale(f)  == [type |-> "Scale", factor |-> f]

(***************************************************************************)
(* calculate_position (lib.rs:139-160)                                     *)
(***************************************************************************)
saturating_sub_mut(a, b) == a - b
saturating_sub(a, b) == IF a >= b THEN a - b ELSE 0

\* (base as f32 * percent / 100.0) - extra as f32 / 2.0
percent_axis(base, percent, extra) ==
    F32Sub(F32Div(F32Mul(F32FromInt(base), percent), F32FromInt(100)),
           F32Div(F32FromInt(extra), F32FromInt(2)))

PosPanic == [panic |-> TRUE, x |-> I64(0), y |-> I64(0)]
Pos(x, y) == [panic |-> FALSE, x |-> x, y |-> y]

calculate_position(off, extra_size, base_size, overflow_checks) ==
    CASE off.type = "Pixel" ->
           LET x_pos == I64Sub(off.px, extra_size[1] \div 2, overflow_checks)
               y_pos == I64Sub(off.py, extra_size[2] \div 2, overflow_checks)
           IN  IF x_pos.panic \/ y_pos.panic THEN PosPanic
               ELSE Pos(x_pos.v, y_pos.v)
      [] off.type = "Percent" ->
           LET x_pos == percent_axis(base_size[1], off.fx, extra_size[1])
               y_pos == percent_axis(base_size[2], off.fy, extra_size[2])
           IN  Pos(I64(F32Trunc(x_pos)), I64(F32Trunc(y_pos)))
      [] off.type = "Center" ->
           Pos(I64(saturating_sub(base_size[1], extra_size[1]) \div 2),
               I64(saturating_sub(base_size[2], extra_size[2]) \div 2))

(***************************************************************************)
(* resize_image (lib.rs:162-184): the dimensions handed to resize_exact    *)
(***************************************************************************)
resize_dims(original, mode) ==
    LET original_width  == original[1]
        original_height == original[2]
    IN  CASE mode.type = "Width" ->
               LET aspect_ratio == F32Div(F32FromInt(original_height),
                                          F32FromInt(original_width))
                   new_height   == F32AsU32(F32Mul(F32FromInt(mode.target),
                                                   aspect_ratio))
               IN  <<mode.target, new_height>>
          [] mode.type = "Height" ->
               LET aspect_ratio == F32Div(F32FromInt(original_width),
                                          F32FromInt(original_height))
                   new_width    == F32AsU32(F32Mul(F32FromInt(mode.target),
                                                   aspect_ratio))
               IN  <<new_width, mode.target>>
          [] mode.type = "Scale" ->
               <<F32AsU32(F32Mul(F32FromInt(original_width), mode.factor)),
                 F32AsU32(F32Mul(F32FromInt(original_height), mode.factor))>>

(***************************************************************************)
(* Images and painting                                                     *)
(*                                                                         *)
(* A pixel is <<r, g, b, a>>.  The pixels enumerated here have alpha 0 or  *)
(* 255, the two cases Rgba::blend settles without arithmetic.              *)
(***************************************************************************)
Coords(w, h) == (0..(w - 1)) \X (0..(h - 1))

Image(w, h, pixels) == [w |-> w, h |-> h, px |-> pixels, present |-> TRUE]

dimensions(img) == <<img.w, img.h>>

\* ImageBuffer::from_pixel(width, height, color)
from_pixel(width, height, color) ==
    Image(width, height, [c \in Coords(width, height) |-> color])

\* Rgba::blend as called by imageops::overlay: a transparent source pixel
\* leaves the destination alone, an opaque one replaces it
blend_mut(bottom_pixel, p) == p
blend(bottom_pixel, p) ==
    CASE p[4] = 0 -> bottom_pixel
      [] p[4] = 255 -> p

\* imageops::overlay(bottom, top, x, y): top is painted with its corner at
\* (x, y) and clipped to bottom; a corner anchored at an edge of i64 is
\* further from the canvas than any u32 size, so nothing overlaps
imageops_overlay(bottom, top, x, y) ==
    IF x.anchor # "ZERO" \/ y.anchor # "ZERO" THEN bottom
    ELSE [bottom EXCEPT !.px =
            [c \in Coords(bottom.w, bottom.h) |->
                LET tx == c[1] - x.off
                    ty == c[2] - y.off
                IN  IF tx \in 0..(top.w - 1) /\ ty \in 0..(top.h - 1)
                    THEN blend(bottom.px[c], top.px[<<tx, ty>>])
                    ELSE bottom.px[c]]]

(***************************************************************************)
(* compose (lib.rs:121-137)                                                *)
(***************************************************************************)
compose_mut(background_img, product_img, overlay_image, product_offset, checks) ==
    LET base_size == dimensions(background_img)
        pos == calculate_position(product_offset, dimensions(product_img),
                                  base_size, checks)
        overlay_size == dimensions(overlay_image)
        overlay_x == saturating_sub(base_size[1], overlay_size[1]) \div 2
        overlay_y == saturating_sub(base_size[2], overlay_size[2]) \div 2
        first == imageops_overlay(background_img, overlay_image,
                                  I64(overlay_x), I64(overlay_y))
    IN  IF pos.panic THEN [panic |-> TRUE, img |-> background_img, pos |-> pos]
        ELSE [panic |-> FALSE, pos |-> pos,
              img |-> imageops_overlay(first, product_img, pos.x, pos.y)]

compose(background_img, product_img, overlay_image, product_offset, checks) ==
    LET base_size == dimensions(background_img)
        product_size == dimensions(product_img)
        pos == calculate_position(product_offset, product_size, base_size,
                                  checks)
        overlay_size == dimensions(overlay_image)
        overlay_x == saturating_sub(base_size[1], overlay_size[1]) \div 2
        overlay_y == saturating_sub(base_size[2], overlay_size[2]) \div 2
    IN  IF pos.panic THEN [panic |-> TRUE, img |-> background_img, pos |-> pos]
        ELSE [panic |-> FALSE, pos |-> pos,
              img |-> imageops_overlay(
                          imageops_overlay(background_img, product_img,
                                           pos.x, pos.y),
                          overlay_image, I64(overlay_x), I64(overlay_y))]

(***************************************************************************)
(* BuildCompositedImageOptions (lib.rs:22-86)                              *)
(***************************************************************************)
Absent == [present |-> FALSE]
Descriptor(type, value) == [present |-> TRUE, type |-> type, value |-> value]

Ok(v) == [ok |-> TRUE, v |-> v]
Err(status, reason) == [ok |-> FALSE, status |-> status, reason |-> reason]
None == [some |-> FALSE]
Some(v) == [some |-> TRUE, v |-> v]

\* the mode values are numbers an f32 holds exactly, so `as f32` keeps them
get_resize_mode(opts) ==
    IF opts.resize_mode.present
    THEN LET type_str == opts.resize_mode.type
             value == opts.resize_mode.value
         IN  CASE type_str = "Width" -> Ok(Some(Width(value)))
               [] type_str = "Height" -> Ok(Some(Height(value)))
               [] type_str = "Scale" -> Ok(Some(Scale(value)))
               [] OTHER -> Err("InvalidArg", "Invalid ResizeMode type")
    ELSE Ok(None)

get_offset_mode(opts) ==
    IF opts.offset_mode.present
    THEN LET type_str == opts.offset_mode.type
             value == opts.offset_mode.value
         IN  CASE type_str = "Pixel" -> Ok(Pixel(value[1], value[2]))
               [] type_str = "Percent" -> Ok(Percent(value[1], value[2]))
               [] type_str = "Center" -> Ok(Center)
               [] OTHER -> Err("InvalidArg", "Invalid OffsetMode type")
    ELSE Ok(Center)

\* the canvas size taken at lib.rs:109
canvas_size_mut(product_image, overlay_image) == dimensions(product_image)
canvas_size(product_image, overlay_image) == dimensions(overlay_image)

(***************************************************************************)
(* Bounds and input sets                                                   *)
(***************************************************************************)
MaxPosDim == 3       \* element and canvas sizes of the position study
MaxCoord == 2        \* ordinary Pixel coordinates are -MaxCoord..MaxCoord
MaxResizeDim == 13   \* image sizes and targets of the resize study

PosDims == 0..MaxPosDim
PosSizes == PosDims \X PosDims

\* ordinary coordinates and the edges of i64
PixelCoords ==
    {I64(n) : n \in -MaxCoord..MaxCoord} \cup {I64Min(0), I64Min(1), I64Max(0)}

\* percentages as f32 values: 0, 50, 100, 12.5, -25, 150, 33.3f32 and
\* the f32 nearest to 100/3 (33.333332)
PercentValues ==
    {F32FromInt(0), F32FromInt(50), F32FromInt(100),
     F32Div(F32FromInt(25), F32FromInt(2)), F32FromInt(-25), F32FromInt(150),
     <<8729395, -18>>, F32Div(F32FromInt(100), F32FromInt(3))}

PosOffsets ==
    {Center}
    \cup {Pixel(x, y) : x \in PixelCoords, y \in PixelCoords}
    \cup {Percent(p, q) : p \in PercentValues, q \in PercentValues}

\* the worked examples of the documentation
ExamplePixel ==
    [offset |-> Pixel(I64(200), I64(100)), extra |-> <<100, 50>>,
     base |-> <<800, 600>>]
ExamplePercent ==
    [offset |-> Percent(F32FromInt(50), F32FromInt(50)), extra |-> <<100, 100>>,
     base |-> <<800, 600>>]
ExampleCenter ==
    [offset |-> Center, extra |-> <<1000, 100>>, base |-> <<800, 600>>]

PositionInputs ==
    [offset : PosOffsets, extra : PosSizes, base : PosSizes]
    \cup {ExamplePixel, ExamplePercent, ExampleCenter}

ResizeDims == 1..MaxResizeDim
ResizeModes ==
    {Width(w) : w \in 0..MaxResizeDim}
    \cup {Height(h) : h \in 0..MaxResizeDim}
    \cup {Scale(f) : f \in {<<1, -1>>, <<3, -1>>, <<1, 1>>, <<-1, 0>>}}
ResizeInputs == [original : ResizeDims \X ResizeDims, mode : ResizeModes]

(***************************************************************************)
(* The pure functions on their own                                         *)
(***************************************************************************)
PipelineIdle ==
    /\ pc = "idle"
    /\ product_buffer = NoValue
    /\ overlay_buffer = NoValue
    /\ options = NoValue
    /\ product = NoImage
    /\ overlay_img = NoImage
    /\ background = NoImage
    /\ offset = NoValue
    /\ product_pos = NoValue
    /\ painted = 0
    /\ saved = NoImage
    /\ outcome = "idle"
    /\ err = NoValue

pipeline_vars == <<pc, product_buffer, overlay_buffer, options, product, overlay_img, background, offset,
                   product_pos, painted, saved, outcome, err>>

InitPosition ==
    /\ PipelineIdle
    /\ fn_pc = "call"
    /\ fn_in \in PositionInputs
    /\ fn_out = NoValue

\* one call of calculate_position, under either build profile
CallPosition ==
    /\ fn_pc = "call"
    /\ \E overflow_checks \in BOOLEAN :
         fn_out' = calculate_position(fn_in.offset, fn_in.extra, fn_in.base,
                                      overflow_checks)
    /\ fn_pc' = "ret"
    /\ UNCHANGED <<fn_in, pipeline_vars>>

SpecPosition == InitPosition /\ [][CallPosition]_vars

InitResize ==
    /\ PipelineIdle
    /\ fn_pc = "call"
    /\ fn_in \in ResizeInputs
    /\ fn_out = NoValue

\* one call of resize_image; fn_out is the size of the image it returns
CallResize ==
    /\ fn_pc = "call"
    /\ fn_out' = resize_dims(fn_in.original, fn_in.mode)
    /\ fn_pc' = "ret"
    /\ UNCHANGED <<fn_in, pipeline_vars>>

SpecResize == InitResize /\ [][CallResize]_vars

Returned == fn_pc = "ret"

(***************************************************************************)
(* Claims about calculate_position and resize_image                        *)
(***************************************************************************)
\* the centred coordinate on one axis, as documented
CenterAxis(canvas, elem) ==
    IF elem <= canvas THEN (canvas - elem) \div 2 ELSE 0

\* C4: with OffsetMode::Center calculate_position returns, per axis,
\* (canvas - element) / 2 rounded down when the element fits on that axis and
\* 0 when it does not, so neither coordinate is ever negative.
C4_CenterPosition ==
    (Returned /\ fn_in.offset.type = "Center") =>
        /\ fn_out = Pos(I64(CenterAxis(fn_in.base[1], fn_in.extra[1])),
                        I64(CenterAxis(fn_in.base[2], fn_in.extra[2])))
        /\ I64Sign(fn_out.x) >= 0
        /\ I64Sign(fn_out.y) >= 0

\* C4 witness: an element wider but lower than the canvas has been centred
C4_Witness ==
    /\ Returned
    /\ fn_in.offset.type = "Center"
    /\ fn_in.extra[1] > fn_in.base[1]
    /\ fn_in.extra[2] + 2 <= fn_in.base[2]
    /\ fn_out.x = I64(0)
    /\ fn_out.y.off >= 1

\* C5: with OffsetMode::Pixel(x, y) calculate_position returns
\* (x - elem_w/2, y - elem_h/2) whatever the canvas size; the documented
\* example 100x50 at Pixel(200, 100) gives (150, 75).
C5_PixelPosition ==
    (Returned /\ fn_in.offset.type = "Pixel") =>
        /\ fn_out = Pos(I64ExactSub(fn_in.offset.px, fn_in.extra[1] \div 2),
                        I64ExactSub(fn_in.offset.py, fn_in.extra[2] \div 2))
        /\ (fn_in = ExamplePixel => fn_out = Pos(I64(150), I64(75)))

\* truncation toward zero of the rational n / d, d > 0
TruncDiv(n, d) == Sgn(n) * (Abs(n) \div d)

\* canvas * p / 100 - elem / 2 in exact rational arithmetic, truncated toward
\* zero once; p is the f32 <<m, e>>
ExactPercentAxis(canvas, p, elem) ==
    IF p[2] >= 0
    THEN TruncDiv(2 * canvas * p[1] * (2^p[2]) - 100 * elem, 200)
    ELSE TruncDiv(2 * canvas * p[1] - 100 * elem * (2^(-p[2])),
                  200 * (2^(-p[2])))

C10_PositionTotal ==
    Returned =>
        /\ ~fn_out.panic
        /\ fn_in.offset.type = "Pixel" =>
             /\ InI64(I64ExactSub(fn_in.offset.px, fn_in.extra[1] \div 2))
             /\ InI64(I64ExactSub(fn_in.offset.py, fn_in.extra[2] \div 2))

\* C7: resize_image with ResizeMode::Width(w) returns an image of width
\* exactly w and height exactly floor(original_height * w / original_width).
C7_WidthResize ==
    (Returned /\ fn_in.mode.type = "Width") =>
        fn_out = <<fn_in.mode.target,
                   (fn_in.original[2] * fn_in.mode.target)
                       \div fn_in.original[1]>>

(***************************************************************************)
(* build_composited_image (lib.rs:93-119)                                  *)
(***************************************************************************)
MaxDim == 2          \* image sizes of the compositing study are 1..MaxDim

ProductPalette ==
    [opaque |-> << <<200, 0, 0, 255>>, <<0, 200, 0, 255>> >>,
     clear  |-> <<200, 0, 0, 0>>]
OverlayPalette ==
    [opaque |-> << <<0, 0, 100, 255>>, <<50, 50, 50, 255>> >>,
     clear  |-> <<0, 0, 0, 0>>]

\* image contents: "opaque" alternates two opaque colours, "mixed"
\* alternates an opaque and a transparent pixel, "solid" is one opaque
\* colour, "clear" is transparent
Pattern(palette, fill, c) ==
    CASE fill = "opaque" -> palette.opaque[((c[1] + c[2]) % 2) + 1]
      [] fill = "solid" -> palette.opaque[1]
      [] fill = "mixed" -> IF (c[1] + c[2]) % 2 = 0 THEN palette.opaque[1]
                           ELSE palette.clear
      [] fill = "clear" -> palette.clear

MakeImage(w, h, palette, fill) ==
    Image(w, h, [c \in Coords(w, h) |-> Pattern(palette, fill, c)])

ProductFills == {"opaque", "mixed", "solid"}
OverlayFills == {"opaque", "mixed", "clear"}

Malformed == [valid |-> FALSE, img |-> NoImage]
Buffer(img) == [valid |-> TRUE, img |-> img]

ProductBuffers ==
    {Buffer(MakeImage(w, h, ProductPalette, f)) :
        w \in 1..MaxDim, h \in 1..MaxDim, f \in ProductFills}
    \cup {Malformed}
OverlayBuffers ==
    {Buffer(MakeImage(w, h, OverlayPalette, f)) :
        w \in 1..MaxDim, h \in 1..MaxDim, f \in OverlayFills}
    \cup {Malformed}

\* background_color: two well-formed colours, a 3-byte and a 5-byte one
BackgroundColors ==
    {<<10, 20, 30, 0>>, <<10, 20, 30, 255>>, <<10, 20, 30>>,
     <<10, 20, 30, 0, 0>>}

ResizeDescriptors ==
    {Absent, Descriptor("Width", 1), Descriptor("Height", MaxDim + 1),
     Descriptor("Scale", <<1, 1>>), Descriptor("Diagonal", 1)}

OffsetDescriptors ==
    {Absent, Descriptor("Center", <<>>), Descriptor("Diagonal", <<>>)}
    \cup {Descriptor("Pixel", <<x, y>>) :
            x \in {I64(-1), I64(0), I64Min(0)}, y \in {I64(0), I64(1)}}
    \cup {Descriptor("Percent", <<F32FromInt(50), F32FromInt(50)>>),
          Descriptor("Percent", <<F32FromInt(0), F32FromInt(100)>>)}

OptionsSet ==
    [background_color : BackgroundColors, resize_mode : ResizeDescriptors,
     offset_mode : OffsetDescriptors]

\* every pixel of the image is the same
Uniform(img) == \A c, d \in DOMAIN img.px : img.px[c] = img.px[d]

\* the options name a resize mode that get_resize_mode accepts
ResizeRequested(opts) ==
    /\ opts.resize_mode.present
    /\ opts.resize_mode.type \in {"Width", "Height", "Scale"}

NoErr == [status |-> "none", reason |-> ""]

Init ==
    /\ pc = "decode"
    /\ product_buffer \in ProductBuffers
    /\ overlay_buffer \in OverlayBuffers
    /\ options \in OptionsSet
    /\ (ResizeRequested(options) /\ product_buffer.valid) =>
           Uniform(product_buffer.img)
    /\ product = NoImage
    /\ overlay_img = NoImage
    /\ background = NoImage
    /\ offset = NoValue
    /\ product_pos = NoValue
    /\ painted = 0
    /\ saved = NoImage
    /\ outcome = "running"
    /\ err = NoErr
    /\ fn_pc = "idle"
    /\ fn_in = NoValue
    /\ fn_out = NoValue

fn_vars == <<fn_pc, fn_in, fn_out>>
input_vars == <<product_buffer, overlay_buffer, options>>

\* an `.unwrap()` on an Err, or an arithmetic overflow: the call panics
Panics(status, reason) ==
    /\ pc' = "done"
    /\ outcome' = "panic"
    /\ err' = [status |-> status, reason |-> reason]

\* resize_exact(nwidth, nheight, Lanczos3): every output sample is a mean
\* of input samples with weights normalised to sum 1, rounded to u8, so an
\* image of a single colour is resampled to that colour.  Images of several
\* colours are not resampled here: Init hands a resize only uniform products.
resize_exact(image, nwidth, nheight) ==
    CASE Uniform(image) ->
           Image(nwidth, nheight,
                 [c \in Coords(nwidth, nheight) |-> image.px[<<0, 0>>]])

resize_image(image, mode) ==
    LET d == resize_dims(dimensions(image), mode)
    IN  resize_exact(image, d[1], d[2])

\* lib.rs:101-102
Decode ==
    /\ pc = "decode"
    /\ IF ~product_buffer.valid \/ ~overlay_buffer.valid
       THEN /\ Panics("DecodeError", "load_from_memory")
            /\ UNCHANGED <<product, overlay_img>>
       ELSE /\ product' = product_buffer.img
            /\ overlay_img' = overlay_buffer.img
            /\ pc' = "resize"
            /\ UNCHANGED <<outcome, err>>
    /\ UNCHANGED <<input_vars, background, offset, product_pos, painted,
                   saved, fn_vars>>

\* lib.rs:104-107
Resize ==
    /\ pc = "resize"
    /\ LET r == get_resize_mode(options)
       IN  IF ~r.ok
           THEN /\ Panics(r.status, r.reason)
                /\ UNCHANGED product
           ELSE /\ IF r.v.some
                   THEN product' = resize_image(product, r.v.v)
                   ELSE UNCHANGED product
                /\ pc' = "canvas"
                /\ UNCHANGED <<outcome, err>>
    /\ UNCHANGED <<input_vars, overlay_img, background, offset, product_pos,
                   painted, saved, fn_vars>>

\* lib.rs:109-112
BuildCanvas ==
    /\ pc = "canvas"
    /\ LET size == canvas_size(product, overlay_img)
           background_color == options.background_color
       IN  IF Len(background_color) # 4
           THEN /\ Panics("TryFromSliceError", "try_into")
                /\ UNCHANGED background
           ELSE /\ background' = from_pixel(size[1], size[2], background_color)
                /\ pc' = "offset"
                /\ UNCHANGED <<outcome, err>>
    /\ UNCHANGED <<input_vars, product, overlay_img, offset, product_pos,
                   painted, saved, fn_vars>>

\* lib.rs:114
ParseOffset ==
    /\ pc = "offset"
    /\ LET r == get_offset_mode(options)
       IN  IF ~r.ok
           THEN /\ Panics(r.status, r.reason)
                /\ UNCHANGED offset
           ELSE /\ offset' = r.v
                /\ pc' = "compose"
                /\ UNCHANGED <<outcome, err>>
    /\ UNCHANGED <<input_vars, product, overlay_img, background, product_pos,
                   painted, saved, fn_vars>>

\* lib.rs:116: the whole of compose, under either build profile
Compose ==
    /\ pc = "compose"
    /\ \E overflow_checks \in BOOLEAN :
         LET r == compose(background, product, overlay_img, offset,
                          overflow_checks)
         IN  IF r.panic
             THEN /\ Panics("Overflow", "attempt to subtract with overflow")
                  /\ UNCHANGED <<background, product_pos, painted>>
             ELSE /\ background' = r.img
                  /\ product_pos' = r.pos
                  /\ painted' = 2
                  /\ pc' = "save"
                  /\ UNCHANGED <<outcome, err>>
    /\ UNCHANGED <<input_vars, product, overlay_img, offset, saved, fn_vars>>

\* lib.rs:118: the file system accepts the file or not
Save ==
    /\ pc = "save"
    /\ \E written \in BOOLEAN :
         IF written
         THEN /\ saved' = background
              /\ pc' = "done"
              /\ outcome' = "ok"
              /\ UNCHANGED err
         ELSE /\ Panics("ImageError", "save")
              /\ UNCHANGED saved
    /\ UNCHANGED <<input_vars, product, overlay_img, background, offset,
                   product_pos, painted, fn_vars>>

Next == Decode \/ Resize \/ BuildCanvas \/ ParseOffset \/ Compose \/ Save

Spec == Init /\ [][Next]_vars

(***************************************************************************)
(* Claims about the composition                                            *)
(***************************************************************************)
SameSize(a, b) ==
    /\ dimensions(a) = dimensions(b)
    /\ DOMAIN a.px = Coords(b.w, b.h)

\* C1: whatever the product size, resize mode and offset mode, the canvas
\* has exactly the overlay's width and height from its construction on;
\* painting the product and the overlay never changes it, and neither does
\* saving.
C1_CanvasSize ==
    /\ background.present => SameSize(background, overlay_img)
    /\ saved.present => SameSize(saved, overlay_img)

\* C1 witness: a resized product wider than the overlay has been composited
\* and the canvas written
C1_Witness ==
    /\ pc = "done"
    /\ outcome = "ok"
    /\ saved.present
    /\ options.resize_mode.present
    /\ product.w > overlay_img.w
    /\ product.h # overlay_img.h
    /\ painted = 2

Opaque(img) == \A c \in DOMAIN img.px : img.px[c][4] = 255

\* C2: when every overlay pixel has alpha 255, after compose every canvas
\* pixel equals the overlay pixel at the same coordinate, whatever the
\* background colour, the product and its offset.
C2_OpaqueOverlayCovers ==
    (painted = 2 /\ Opaque(overlay_img)) =>
        \A c \in Coords(background.w, background.h) :
            background.px[c] = overlay_img.px[c]

\* C2 witness: an opaque product pixel was painted at the canvas origin
\* under an opaque overlay
C2_Witness ==
    /\ painted = 2
    /\ Opaque(overlay_img)
    /\ overlay_img.w >= 2
    /\ product_pos.x = I64(0)
    /\ product_pos.y = I64(0)
    /\ product.w >= 1
    /\ product.h >= 1
    /\ product.px[<<0, 0>>][4] = 255

\* the product rectangle lies inside the canvas
FullyInside ==
    /\ product_pos.x.anchor = "ZERO"
    /\ product_pos.y.anchor = "ZERO"
    /\ product_pos.x.off >= 0
    /\ product_pos.y.off >= 0
    /\ product_pos.x.off + product.w <= background.w
    /\ product_pos.y.off + product.h <= background.h

UnderProduct(c) ==
    /\ c[1] - product_pos.x.off \in 0..(product.w - 1)
    /\ c[2] - product_pos.y.off \in 0..(product.h - 1)

\* C3: with a background colour of alpha 0 and an all-opaque product placed
\* fully inside the canvas, wherever the overlay pixel is fully transparent
\* the canvas shows the product's pixel inside the product rectangle and the
\* background colour, alpha 0, outside it.
C3_TransparentBackground ==
    (/\ painted = 2
     /\ options.background_color[4] = 0
     /\ Opaque(product)
     /\ FullyInside) =>
        \A c \in Coords(background.w, background.h) :
            overlay_img.px[c][4] = 0 =>
                IF UnderProduct(c)
                THEN background.px[c] =
                        product.px[<<c[1] - product_pos.x.off,
                                     c[2] - product_pos.y.off>>]
                ELSE /\ background.px[c] = options.background_color
                     /\ background.px[c][4] = 0

\* C3 witness: a transparent overlay pixel over the product and another one
\* beside it
C3_Witness ==
    /\ painted = 2
    /\ options.background_color[4] = 0
    /\ Opaque(product)
    /\ FullyInside
    /\ \E c \in Coords(background.w, background.h) :
           overlay_img.px[c][4] = 0 /\ UnderProduct(c)
    /\ \E c \in Coords(background.w, background.h) :
           overlay_img.px[c][4] = 0 /\ ~UnderProduct(c)

WellFormedBuffers == product_buffer.valid /\ overlay_buffer.valid

Recognised(descriptor, types) ==
    descriptor.present => descriptor.type \in types

ModesRecognised ==
    /\ Recognised(options.resize_mode, {"Width", "Height", "Scale"})
    /\ Recognised(options.offset_mode, {"Pixel", "Percent", "Center"})

\* the call has returned an InvalidArgument error to its caller and has
\* neither painted nor written anything
RejectedAsInvalidArgument ==
    /\ outcome = "error"
    /\ err.status = "InvalidArg"
    /\ painted = 0
    /\ ~saved.present

\* C8: when background_color does not have exactly 4 bytes, constructing
\* the canvas fails with an InvalidArgument error result: no canvas is built,
\* nothing is composited and no file is written.
C8_BadColorRejected ==
    (/\ pc = "done"
     /\ WellFormedBuffers
     /\ ModesRecognised
     /\ Len(options.background_color) # 4) =>
        /\ RejectedAsInvalidArgument
        /\ ~background.present

\* C9: when the resize or the offset descriptor carries an unrecognised type
\* string, the call fails with InvalidArgument and compose is never reached:
\* no paint step runs and no file is written.
C9_BadModeRejected ==
    (/\ pc = "done"
     /\ WellFormedBuffers
     /\ Len(options.background_color) = 4
     /\ ~ModesRecognised) =>
        RejectedAsInvalidArgument

====
